---- MODULE Spec2Model ----
(***************************************************************************)
(* State-machine model of the two core subsystems of the repository:       *)
(*                                                                         *)
(*   - the local linear model  (src/src/prolcs/linear/classifier.py),      *)
(*     specification SpecClassifier;                                       *)
(*   - the radial matching region and its mutation operators               *)
(*     (src/src/prolcs/match/radial.py), specification SpecRegion.         *)
(*                                                                         *)
(* Floating-point numbers are modelled as fixed-point                      *)
(* numbers with Scale units per 1.0, together with the IEEE special values *)
(* nan, +inf and -inf that NumPy produces instead of raising.              *)
(***************************************************************************)
EXTENDS Integers, Sequences, FiniteSets, TLC

(***************************************************************************)
(* Bounds of the model.                                                    *)
(***************************************************************************)
\* Fixed-point resolution: Scale units represent 1.0.
Scale == 1000
\* Largest number of rows of an input matrix.
MaxN == 2
\* Largest number of input columns (D_X) and of output columns (D_y).
MaxD == 2
\* Largest value of the MAX_ITER hyperparameter that is explored.
MaxIterCap == 3
\* Largest number of fit calls in one behaviour.
MaxCalls == 2
\* Largest input dimensionality of a matching region (bias column included).
MaxDX == 3
\* Largest number of eigenvalues that the mutate calls of one behaviour draw
\* anew (each call draws one per dimension of the region).
MaxDraws == 4

VARIABLES
    clf,     \* the Classifier object: its attributes (vars(self))
    pc,      \* "idle", or "while": a fit call stands at the test of its loop
    frame,   \* <<locals>> of the running fit call, <<>> when none is running
    ret,     \* the outcome of the latest call on the classifier
    hist,    \* history of the fit calls (records what the claims refer to)
    region,  \* <<the RadialMatch object>>, <<>> before one is constructed
    rret,    \* the outcome of the latest operation on the region
    muts,    \* the number of mutate calls so far
    rng,     \* the generator that the latest sampling or mutation drew from
    heap     \* the arrays behind the region's eigvals and eigvecs, by identity

vars == <<clf, pc, frame, ret, hist, region, rret, muts, rng, heap>>
clfVars == <<clf, pc, frame, ret, hist>>
regionVars == <<region, rret, muts, rng, heap>>

(***************************************************************************)
(* Floating-point values.                                                  *)
(***************************************************************************)
Fin(v) == [v |-> v, k |-> "fin"]
NaN == [v |-> 0, k |-> "nan"]
Inf(s) == [v |-> s, k |-> "inf"]
PInf == Inf(1)
NInf == Inf(-1)
Num(i) == Fin(i * Scale)

Sgn(v) == IF v > 0 THEN 1 ELSE IF v < 0 THEN -1 ELSE 0
IsFin(a) == a.k = "fin"
IsNaN(a) == a.k = "nan"
IsInf(a) == a.k = "inf"

\* a / b rounded to the nearest integer (b # 0).
RoundDiv(a, b) ==
    IF b > 0 THEN (a + b \div 2) \div b ELSE ((-a) + (-b) \div 2) \div (-b)

FNeg(a) == IF IsNaN(a) THEN NaN ELSE [v |-> -a.v, k |-> a.k]

FAdd(a, b) ==
    IF IsNaN(a) \/ IsNaN(b) THEN NaN
    ELSE IF IsInf(a) /\ IsInf(b) THEN (IF a.v = b.v THEN a ELSE NaN)
    ELSE IF IsInf(a) THEN a
    ELSE IF IsInf(b) THEN b
    ELSE Fin(a.v + b.v)

FSub(a, b) == FAdd(a, FNeg(b))

FMul(a, b) ==
    IF IsNaN(a) \/ IsNaN(b) THEN NaN
    ELSE IF IsInf(a) \/ IsInf(b)
         THEN (IF a.v = 0 \/ b.v = 0 THEN NaN ELSE Inf(Sgn(a.v) * Sgn(b.v)))
    ELSE Fin(RoundDiv(a.v * b.v, Scale))

\* NumPy float64 division: x/0 is +-inf, 0/0 is nan (a warning, no exception).
FDiv(a, b) ==
    IF IsNaN(a) \/ IsNaN(b) THEN NaN
    ELSE IF IsInf(a) THEN (IF IsInf(b) THEN NaN
                           ELSE Inf(a.v * (IF b.v < 0 THEN -1 ELSE 1)))
    ELSE IF IsInf(b) THEN Fin(0)
    ELSE IF b.v = 0 THEN (IF a.v = 0 THEN NaN ELSE Inf(Sgn(a.v)))
    ELSE Fin(RoundDiv(a.v * Scale, b.v))

\* a > b; every comparison with nan is false.
FGt(a, b) ==
    IF IsNaN(a) \/ IsNaN(b) THEN FALSE
    ELSE IF IsInf(a) THEN a.v = 1 /\ ~(IsInf(b) /\ b.v = 1)
    ELSE IF IsInf(b) THEN b.v = -1
    ELSE a.v > b.v

FLe(a, b) ==
    IF IsNaN(a) \/ IsNaN(b) THEN FALSE ELSE ~FGt(a, b)

RECURSIVE ISqrt(_, _)
\* The largest r with r * r <= n, by Newton's iteration from x >= r, x > 0.
ISqrt(n, x) ==
    LET y == (x + n \div x) \div 2
    IN  IF y >= x THEN x ELSE ISqrt(n, y)

FSqrt(a) ==
    IF IsNaN(a) THEN NaN
    ELSE IF IsInf(a) THEN (IF a.v = 1 THEN PInf ELSE NaN)
    ELSE IF a.v < 0 THEN NaN
    ELSE IF a.v = 0 THEN a
    ELSE Fin(ISqrt(a.v * Scale, a.v * Scale))

\* ln 2 and ln(2 pi) in fixed point.
Ln2 == RoundDiv(693147 * Scale, 1000000)
Ln2Pi == RoundDiv(1837877 * Scale, 1000000)

\* ln(v / Scale) for Scale <= v < 2 * Scale: 2 (z + z^3/3 + z^5/5), z = (x-1)/(x+1).
LnUnit(v) ==
    LET z  == RoundDiv((v - Scale) * Scale, v + Scale)
        z2 == RoundDiv(z * z, Scale)
        z3 == RoundDiv(z2 * z, Scale)
        z5 == RoundDiv(z3 * z2, Scale)
    IN  2 * z + RoundDiv(2 * z3, 3) + RoundDiv(2 * z5, 5)

RECURSIVE LnFix(_)
\* ln(v / Scale) in fixed point, v > 0.
LnFix(v) ==
    IF v >= 2 * Scale THEN Ln2 + LnFix(RoundDiv(v, 2))
    ELSE IF v < Scale THEN LnFix(2 * v) - Ln2
    ELSE LnUnit(v)

\* np.log: log(0) = -inf, log of a negative number is nan.
FLog(a) ==
    IF IsNaN(a) THEN NaN
    ELSE IF IsInf(a) THEN (IF a.v = 1 THEN PInf ELSE NaN)
    ELSE IF a.v < 0 THEN NaN
    ELSE IF a.v = 0 THEN NInf
    ELSE Fin(LnFix(a.v))

RECURSIVE DigammaFix(_)
\* scipy.special.digamma for v > 0: psi(x) = psi(x + 1) - 1/x, and for x >= 6
\* the asymptotic series ln x - 1/(2x) - 1/(12 x^2).
DigammaFix(v) ==
    IF v < 6 * Scale THEN DigammaFix(v + Scale) - RoundDiv(Scale * Scale, v)
    ELSE LnFix(v) - RoundDiv(Scale * Scale, 2 * v)
         - RoundDiv(Scale * Scale * Scale, 12 * RoundDiv(v * v, Scale) * Scale)

RECURSIVE GammalnFix(_)
\* scipy.special.gammaln for v > 0: ln G(x) = ln G(x + 1) - ln x, and for x >= 6
\* Stirling's series (x - 1/2) ln x - x + ln(2 pi)/2 + 1/(12 x).
GammalnFix(v) ==
    IF v < 6 * Scale THEN GammalnFix(v + Scale) - LnFix(v)
    ELSE RoundDiv((2 * v - Scale) * LnFix(v), 2 * Scale) - v
         + RoundDiv(Ln2Pi, 2) + RoundDiv(Scale * Scale, 12 * v)

FDigamma(a) ==
    IF IsFin(a) /\ a.v > 0 THEN Fin(DigammaFix(a.v))
    ELSE IF IsInf(a) /\ a.v = 1 THEN PInf ELSE NaN

FGammaln(a) ==
    IF IsFin(a) /\ a.v > 0 THEN Fin(GammalnFix(a.v))
    ELSE IF IsInf(a) \/ (IsFin(a) /\ a.v = 0) THEN PInf ELSE NaN

\* The outcome of a call: a returned value or a raised exception.
Return(v) == [exc |-> "none", val |-> <<v>>]
Raise(e) == [exc |-> e, val |-> <<>>]

(***************************************************************************)
(* NumPy arrays: a matrix is a sequence of rows, a row a sequence of       *)
(* floating-point values.                                                  *)
(***************************************************************************)
\* An array holds values, not the expressions that compute them: Vec(f) is
\* the one-dimensional array with the entries of f, Mat(F) the two-dimensional
\* array with the rows of F.
Vec(f) == f \o <<>>
Mat(F) == [i \in 1..Len(F) |-> Vec(F[i])] \o <<>>

Rows(A) == Len(A)
Cols(A) == IF Len(A) = 0 THEN 0 ELSE Len(A[1])

RECURSIVE FSum(_)
\* np.sum of a one-dimensional array.
FSum(s) == IF Len(s) = 0 THEN Fin(0) ELSE FAdd(Head(s), FSum(Tail(s)))

\* np.sum(A): the sum of all entries.
MatSum(A) == FSum([i \in 1..Rows(A) |-> FSum(A[i])])
\* np.sum(A, 1): the vector of row sums.
RowSums(A) == Vec([i \in 1..Rows(A) |-> FSum(A[i])])
\* A.T
Transpose(A) == Mat([j \in 1..Cols(A) |-> [i \in 1..Rows(A) |-> A[i][j]]])
\* A @ B
MatMul(A, B) ==
    Mat([i \in 1..Rows(A) |->
            [j \in 1..Cols(B) |->
                FSum([k \in 1..Cols(A) |-> FMul(A[i][k], B[k][j])])]])
\* A * B and A + B, A - B for arrays of equal shape.
Hadamard(A, B) == Mat([i \in 1..Rows(A) |-> [j \in 1..Cols(A) |-> FMul(A[i][j], B[i][j])]])
MatAdd(A, B) == Mat([i \in 1..Rows(A) |-> [j \in 1..Cols(A) |-> FAdd(A[i][j], B[i][j])]])
MatSub(A, B) == Mat([i \in 1..Rows(A) |-> [j \in 1..Cols(A) |-> FSub(A[i][j], B[i][j])]])
\* A * c for a column vector c with one entry per row of A (broadcasting).
RowScale(A, c) == Mat([i \in 1..Rows(A) |-> [j \in 1..Cols(A) |-> FMul(A[i][j], c[i])]])
\* np.diag([e] * n)
Diag(e, n) == Mat([i \in 1..n |-> [j \in 1..n |-> IF i = j THEN e ELSE Fin(0)]])
\* np.trace(A)
Trace(A) == FSum([i \in 1..Rows(A) |-> A[i][i]])
\* A without row i and column j.
Minor(A, i, j) ==
    Mat([r \in 1..(Rows(A) - 1) |->
            [c \in 1..(Cols(A) - 1) |->
                A[IF r < i THEN r ELSE r + 1][IF c < j THEN c ELSE c + 1]]])

RECURSIVE Det(_)
\* np.linalg.det(A) by expansion along the first row.
Det(A) ==
    IF Rows(A) = 0 THEN Num(1)
    ELSE IF Rows(A) = 1 THEN A[1][1]
    ELSE FSum([j \in 1..Cols(A) |->
                 LET t == FMul(A[1][j], Det(Minor(A, 1, j)))
                 IN  IF j % 2 = 1 THEN t ELSE FNeg(t)])

AllFinite(A) == \A i \in 1..Rows(A) : \A j \in 1..Cols(A) : IsFin(A[i][j])

\* The squared Frobenius norm of A.
Frob2(A) == MatSum(Hadamard(A, A))

\* np.linalg.pinv(A) of a square matrix.  A matrix with a non-finite entry
\* makes the SVD fail ("LinAlgError").  A regular matrix has its inverse,
\* adj(A) / det(A), as pseudo-inverse.  Of the singular matrices the zero
\* matrix (pseudo-inverse 0) and the matrices of rank one (pseudo-inverse
\* A.T / |A|_F^2) are covered, which are all singular matrices up to 2 x 2.
pinv(A) ==
    IF ~AllFinite(A) THEN Raise("LinAlgError")
    ELSE LET d == Det(A)
             n == Rows(A)
         IN  IF d.v # 0
             THEN Return(Mat([i \in 1..n |-> [j \in 1..n |->
                     LET c == Det(Minor(A, j, i))
                     IN  FDiv(IF (i + j) % 2 = 0 THEN c ELSE FNeg(c), d)]]))
             ELSE IF Frob2(A).v = 0 THEN Return(A)
             ELSE Return(Mat([i \in 1..n |-> [j \in 1..n |->
                     FDiv(A[j][i], Frob2(A))]]))

(***************************************************************************)
(* Python objects: an object is a function from the names of the           *)
(* attributes it has (vars(obj)) to their values.  Reading an attribute    *)
(* the object does not have raises AttributeError.                         *)
(***************************************************************************)
Has(obj, name) == name \in DOMAIN obj
Merge(obj, upd) ==
    [n \in DOMAIN obj \cup DOMAIN upd |-> IF n \in DOMAIN upd THEN upd[n] ELSE obj[n]]


(***************************************************************************)
(* Classifier (src/src/prolcs/linear/classifier.py).                       *)
(***************************************************************************)
\* The attributes fit assigns; their names end with an underscore.
FittedNames ==
    {"m_", "D_X_", "D_y_", "a_alpha_", "b_alpha_", "a_tau_", "b_tau_", "L_q_",
     "Lambda_", "Lambda_1_", "W_"}
HyperNames == {"A_ALPHA", "B_ALPHA", "A_TAU", "B_TAU", "DELTA_S_L_K_Q", "MAX_ITER"}

\* Classifier.__init__: the constructor stores its arguments and nothing else.
Classifier(match, A_ALPHA, B_ALPHA, A_TAU, B_TAU, DELTA_S_L_K_Q, MAX_ITER) ==
    [match |-> match, A_ALPHA |-> A_ALPHA, B_ALPHA |-> B_ALPHA, A_TAU |-> A_TAU,
     B_TAU |-> B_TAU, DELTA_S_L_K_Q |-> DELTA_S_L_K_Q, MAX_ITER |-> MAX_ITER]

\* sklearn's check_is_fitted(self): the estimator counts as fitted when it has
\* at least one attribute whose name ends with an underscore.
check_is_fitted(obj) == (DOMAIN obj \cap FittedNames) # {}

\* The fitted-state attributes of an object, as far as it has them.
FittedState(obj) == [n \in DOMAIN obj \cap FittedNames |-> obj[n]]

\* Classifier.var_bound(X, y, r)
var_bound(obj, X, y, r) ==
    LET D_y == Num(obj.D_y_)
        half_D_y == FDiv(D_y, Num(2))
        E_tau_tau == FDiv(obj.a_tau_, obj.b_tau_)
        L_1_q == FMul(FMul(half_D_y,
                           FSub(FSub(FDigamma(obj.a_tau_), FLog(obj.b_tau_)),
                                Fin(Ln2Pi))),
                      FSum(r))
        resid == MatSub(y, MatMul(X, Transpose(obj.W_)))
        sq == RowSums(Hadamard(resid, resid))
        quad == RowSums(Hadamard(X, MatMul(X, obj.Lambda_1_)))
        L_2_q == FSum([n \in 1..Len(r) |->
                         FMul(FMul(FNeg(FDiv(Num(1), Num(2))), r[n]),
                              FAdd(FMul(E_tau_tau, sq[n]), FMul(D_y, quad[n])))])
        L_3_q == FSum(<<FNeg(FGammaln(obj.A_ALPHA)),
                        FMul(obj.A_ALPHA, FLog(obj.B_ALPHA)),
                        FGammaln(obj.a_alpha_),
                        FNeg(FMul(obj.a_alpha_, FLog(obj.b_alpha_))),
                        FDiv(Num(obj.D_X_ * obj.D_y_), Num(2)),
                        FMul(half_D_y, FLog(Det(obj.Lambda_1_)))>>)
        L_4_q == FMul(D_y,
                      FSum(<<FNeg(FGammaln(obj.A_TAU)),
                             FMul(obj.A_TAU, FLog(obj.B_TAU)),
                             FMul(FSub(obj.A_TAU, obj.a_tau_), FDigamma(obj.a_tau_)),
                             FNeg(FMul(obj.A_TAU, FLog(obj.b_tau_))),
                             FNeg(FMul(obj.B_TAU, E_tau_tau)),
                             FGammaln(obj.a_tau_),
                             obj.a_tau_>>))
    IN  FAdd(FAdd(FAdd(L_1_q, L_2_q), L_3_q), L_4_q)

\* A fit that starts from the rate parameter an earlier fit left behind.
fit_reset_keep(obj) ==
    Merge(obj,
          [a_tau_ |-> FAdd(obj.A_TAU, FMul(FDiv(Num(1), Num(2)), FSum(obj.m_))),
           b_tau_ |-> obj.B_TAU,
           a_alpha_ |-> FAdd(obj.A_ALPHA, FDiv(Num(obj.D_X_ * obj.D_y_), Num(2))),
           b_alpha_ |-> IF Has(obj, "b_alpha_") THEN obj.b_alpha_ ELSE obj.B_ALPHA,
           L_q_ |-> NInf])

\* A fit that leaves the shape parameters at their prior values.
fit_reset_prior(obj) ==
    Merge(obj,
          [a_tau_ |-> obj.A_TAU,
           b_tau_ |-> obj.B_TAU,
           a_alpha_ |-> obj.A_ALPHA,
           b_alpha_ |-> obj.B_ALPHA,
           L_q_ |-> NInf])

\* Classifier.fit, lines 61-68: the posterior parameters and the bound are
\* set to their starting values.  obj already holds m_, D_X_ and D_y_.
fit_reset(obj) ==
    Merge(obj,
          [a_tau_ |-> FAdd(obj.A_TAU, FMul(FDiv(Num(1), Num(2)), FSum(obj.m_))),
           b_tau_ |-> obj.B_TAU,
           a_alpha_ |-> FAdd(obj.A_ALPHA, FDiv(Num(obj.D_X_ * obj.D_y_), Num(2))),
           b_alpha_ |-> obj.B_ALPHA,
           L_q_ |-> NInf])

\* Classifier.fit, lines 54-70: everything before the while loop.  inp is the
\* call's input: the arrays X and y (y has inp.ydim dimensions) and the outcome
\* of self.match.match(X), a membership vector inp.m or an exception.
fit_begin(obj, inp) ==
    IF inp.matchRaises THEN [frame |-> <<>>, exc |-> "ValueError", obj |-> obj]
    ELSE
    LET o1 == Merge(obj, [D_X_ |-> Cols(inp.X), m_ |-> inp.m])
    IN  IF inp.ydim # 2 THEN [frame |-> <<>>, exc |-> "ValueError", obj |-> o1]
        ELSE
        LET sqrt_m == Vec([n \in 1..Len(inp.m) |-> FSqrt(inp.m[n])])
            o2 == fit_reset(Merge(o1, [D_y_ |-> Cols(inp.y)]))
            fr == [y |-> inp.y, X |-> inp.X,
                   X_ |-> RowScale(inp.X, sqrt_m),
                   y_ |-> RowScale(inp.y, sqrt_m),
                   delta_L_q |-> FAdd(obj.DELTA_S_L_K_Q, Num(1)),
                   L_q_prev |-> NInf,
                   iter |-> 0]
        IN  [frame |-> <<fr>>, exc |-> "none", obj |-> o2]

\* A loop that tests the improvement of the bound but not the iteration count.
loop_cond_nocap(obj, fr) == FGt(fr.delta_L_q, obj.DELTA_S_L_K_Q)

\* Classifier.fit, line 71: the condition of the while loop.
loop_cond(obj, fr) == FGt(fr.delta_L_q, obj.DELTA_S_L_K_Q) /\ fr.iter < obj.MAX_ITER

\* Classifier.fit, lines 72-98: one iteration of the while loop.
fit_iter(obj, fr) ==
    LET E_alpha_alpha == FDiv(obj.a_alpha_, obj.b_alpha_)
        Lambda == MatAdd(Diag(E_alpha_alpha, obj.D_X_), MatMul(Transpose(fr.X_), fr.X_))
        o1 == Merge(obj, [Lambda_ |-> Lambda])
        inv == pinv(Lambda)
    IN  IF inv.exc # "none"
        THEN [frame |-> <<>>, exc |-> "LinAlgError", obj |-> o1]
        ELSE
        LET Lambda_1 == inv.val[1]
            W == MatMul(MatMul(Transpose(fr.y_), fr.X_), Lambda_1)
            b_tau == FAdd(obj.B_TAU,
                          FMul(FDiv(Num(1), Num(2 * obj.D_y_)),
                               FSub(MatSum(Hadamard(fr.y_, fr.y_)),
                                    MatSum(Hadamard(W, MatMul(W, Lambda))))))
            E_tau_tau == FDiv(obj.a_tau_, b_tau)
            b_alpha == FAdd(obj.B_ALPHA,
                            FMul(FDiv(Num(1), Num(2)),
                                 FAdd(FMul(E_tau_tau, MatSum(Hadamard(W, W))),
                                      FMul(Num(obj.D_y_), Trace(Lambda_1)))))
            o2 == Merge(o1, [b_tau_ |-> b_tau, W_ |-> W, Lambda_1_ |-> Lambda_1,
                             b_alpha_ |-> b_alpha])
            L_q_prev == obj.L_q_
            L_q == var_bound(o2, fr.X, fr.y, obj.m_)
            o3 == Merge(o2, [L_q_ |-> L_q])
        IN  [frame |-> <<[fr EXCEPT !.iter = fr.iter + 1,
                                    !.L_q_prev = L_q_prev,
                                    !.delta_L_q = FSub(L_q, L_q_prev)]>>,
             exc |-> "none",
             obj |-> o3]

RECURSIVE fit_loop(_, _)
\* The while loop as a whole, from the state (obj, fr) on.
fit_loop(obj, fr) ==
    IF loop_cond(obj, fr)
    THEN LET r == fit_iter(obj, fr)
         IN  IF r.exc # "none" THEN r ELSE fit_loop(r.obj, r.frame[1])
    ELSE [frame |-> <<fr>>, exc |-> "none", obj |-> obj]

\* Classifier.fit as a whole: the object and the exception it ends with.
fit(obj, inp) ==
    LET b == fit_begin(obj, inp)
    IN  IF b.exc # "none" THEN b ELSE fit_loop(b.obj, b.frame[1])

\* arr.reshape((r, c)) of a one-dimensional array.
Reshape(v, r, c) ==
    IF Len(v) # r * c THEN Raise("ValueError")
    ELSE Return(Mat([i \in 1..r |-> [j \in 1..c |-> v[(i - 1) * c + j]]]))
\* A.repeat(k, axis=1)
Repeat(A, k) ==
    Mat([i \in 1..Rows(A) |-> [j \in 1..(Cols(A) * k) |-> A[i][((j - 1) \div k) + 1]]])

\* Classifier.predict(X)
predict(obj, X) ==
    IF ~check_is_fitted(obj) THEN Raise("NotFittedError")
    ELSE IF ~Has(obj, "W_") THEN Raise("AttributeError")
    ELSE IF Cols(X) # Cols(obj.W_) THEN Raise("ValueError")
    ELSE Return(MatMul(X, Transpose(obj.W_)))

\* Classifier.predict_var(X)
predict_var(obj, X) ==
    IF ~check_is_fitted(obj) THEN Raise("NotFittedError")
    ELSE IF ~({"b_tau_", "a_tau_", "Lambda_1_", "D_y_"} \subseteq DOMAIN obj)
         THEN Raise("AttributeError")
    ELSE IF Cols(X) # Rows(obj.Lambda_1_) THEN Raise("ValueError")
    ELSE
    LET factor == FDiv(FMul(Num(2), obj.b_tau_), FSub(obj.a_tau_, Num(1)))
        sums == RowSums(MatMul(Hadamard(X, X), obj.Lambda_1_))
        var == Vec([n \in 1..Rows(X) |-> FMul(factor, FAdd(Num(1), sums[n]))])
        shaped == Reshape(var, Rows(X), obj.D_y_)
    IN  IF shaped.exc # "none" THEN shaped
        ELSE Return(Repeat(shaped.val[1], obj.D_y_))

(***************************************************************************)
(* The inputs of the classifier's operations.                              *)
(***************************************************************************)
\* Membership values lie in (0, 1].
MVals == {Fin(Scale \div 2), Num(1)}

\* The input matrix whose row n is (1, n + 1, n + 1, ...): a leading bias
\* column of ones, and rows that differ from each other.
PlainX(N, D) == [n \in 1..N |-> [j \in 1..D |-> IF j = 1 THEN Num(1) ELSE Num(n + 1)]]
\* An input matrix with an entry that is not finite.
NanX(N, D) == [n \in 1..N |-> [j \in 1..D |-> IF n = 1 /\ j = 1 THEN NaN ELSE Num(1)]]
\* The target matrix whose row n holds n in every output column.
RampY(N, D) == [n \in 1..N |-> [j \in 1..D |-> Num(n)]]
\* Membership vectors: the same membership for every row.
ConstM(N) == {[n \in 1..N |-> v] : v \in MVals}
Ones(N) == [n \in 1..N |-> Num(1)]

Shapes == (1..MaxN) \X (1..MaxD) \X (1..MaxD)
EdgeShapes == {<<1, 1>>, <<MaxN, MaxD>>}

\* Well-formed calls fit(X, y) with the membership vector the region returns.
GoodInputs ==
    UNION {{[y |-> RampY(sh[1], sh[3]), X |-> PlainX(sh[1], sh[2]), matchRaises |-> FALSE,
             m |-> m, ydim |-> 2] : m \in ConstM(sh[1])} : sh \in Shapes}
\* Calls whose X holds a non-finite entry (in the bias column, which the
\* region ignores).
NanInputs ==
    {[y |-> RampY(sh[1], 1), X |-> NanX(sh[1], sh[2]), matchRaises |-> FALSE,
      m |-> Ones(sh[1]), ydim |-> 2] : sh \in EdgeShapes}
\* Calls whose y is one-dimensional: y.shape = (N,).  Its N entries are held
\* one per row, and ydim is the number of dimensions of the array.
Y1dInputs ==
    {[y |-> RampY(sh[1], 1), X |-> PlainX(sh[1], sh[2]), matchRaises |-> FALSE,
      m |-> Ones(sh[1]), ydim |-> 1] : sh \in EdgeShapes}
\* Calls whose X the region rejects (self.match.match(X) raises).
BadXInputs ==
    {[y |-> <<<<Num(1)>>>>, X |-> <<<<Num(1)>>>>, matchRaises |-> TRUE, m |-> <<>>,
      ydim |-> 2]}
FitInputs == GoodInputs \cup NanInputs \cup Y1dInputs \cup BadXInputs

\* Calls predict(X) and predict_var(X): one X for every number of columns.
PredictInputs == {PlainX(MaxN, D) : D \in 1..MaxD}

\* The hyperparameters explored: any positive values are admissible.
Classifiers ==
    {Classifier("region", Fin(Scale \div 100), Num(1), Fin(Scale \div 2),
                Fin(Scale \div 100), DELTA, MAX_ITER) :
        DELTA \in {Fin(Scale \div 100), Num(1)},
        MAX_ITER \in 0..MaxIterCap}

(***************************************************************************)
(* The classifier as a state machine.                                      *)
(***************************************************************************)
\* The last call made: the operation, its argument, and how it ended.
NoCall == [exc |-> "none", val |-> <<>>, op |-> "none", arg |-> <<>>]
Outcome(op, X, r) == [exc |-> r.exc, val |-> r.val, op |-> op, arg |-> <<X>>]

\* A classifier has been constructed and nothing has been called; no region
\* object is under study.
InitClassifier ==
    /\ clf \in Classifiers
    /\ pc = "idle"
    /\ frame = <<>>
    /\ ret = NoCall
    /\ hist = [inp |-> <<>>, calls |-> 0, completed |-> 0, entry |-> <<>>,
               outcome |-> "none"]
    /\ region = <<>>
    /\ rret = NoCall
    /\ muts = 0
    /\ rng = "none"
    /\ heap = [arrays |-> <<>>, bound |-> <<>>, held |-> <<>>]

\* fit(X, y) is called and runs up to the first test of its loop, or raises.
FitCall(inp) ==
    /\ pc = "idle"
    /\ hist.calls < MaxCalls
    /\ LET b == fit_begin(clf, inp)
       IN  /\ clf' = b.obj
           /\ frame' = b.frame
           /\ pc' = IF b.exc = "none" THEN "while" ELSE "idle"
           /\ ret' = [exc |-> b.exc, val |-> <<>>, op |-> "fit", arg |-> <<>>]
           /\ hist' = [inp |-> <<inp>>,
                       calls |-> hist.calls + 1,
                       completed |-> hist.completed,
                       entry |-> <<[fitted |-> hist.completed > 0,
                                    state |-> FittedState(clf)]>>,
                       outcome |-> IF b.exc = "none" THEN "running" ELSE "raised"]
    /\ UNCHANGED regionVars

\* The loop condition holds: one iteration of the loop runs, or raises.
FitIterate ==
    /\ pc = "while"
    /\ loop_cond(clf, frame[1])
    /\ LET r == fit_iter(clf, frame[1])
       IN  /\ clf' = r.obj
           /\ frame' = r.frame
           /\ pc' = IF r.exc = "none" THEN "while" ELSE "idle"
           /\ ret' = [exc |-> r.exc, val |-> <<>>, op |-> "fit", arg |-> <<>>]
           /\ hist' = [hist EXCEPT
                         !.outcome = IF r.exc = "none" THEN "running" ELSE "raised"]
    /\ UNCHANGED regionVars

\* The loop condition fails: fit returns self.
FitReturn ==
    /\ pc = "while"
    /\ ~loop_cond(clf, frame[1])
    /\ pc' = "idle"
    /\ frame' = <<>>
    /\ ret' = [exc |-> "none", val |-> <<>>, op |-> "fit", arg |-> <<>>]
    /\ hist' = [hist EXCEPT !.completed = hist.completed + 1,
                            !.outcome = "returned"]
    /\ UNCHANGED <<clf, regionVars>>

Predict(X) ==
    /\ pc = "idle"
    /\ ret' = Outcome("predict", X, predict(clf, X))
    /\ hist' = [hist EXCEPT !.entry = <<>>]
    /\ UNCHANGED <<clf, pc, frame, regionVars>>

PredictVar(X) ==
    /\ pc = "idle"
    /\ ret' = Outcome("predict_var", X, predict_var(clf, X))
    /\ hist' = [hist EXCEPT !.entry = <<>>]
    /\ UNCHANGED <<clf, pc, frame, regionVars>>

NextClassifier ==
    \/ \E inp \in FitInputs : FitCall(inp)
    \/ FitIterate
    \/ FitReturn
    \/ \E X \in PredictInputs : Predict(X)
    \/ \E X \in PredictInputs : PredictVar(X)

SpecClassifier == InitClassifier /\ [][NextClassifier]_vars

(***************************************************************************)
(* Numerics of the matching region.                                        *)
(***************************************************************************)
\* np.pi
Pi == Fin(RoundDiv(314159 * Scale, 100000))

RECURSIVE FPow(_, _)
\* a ** k for a natural number k.
FPow(a, k) == IF k = 0 THEN Num(1) ELSE FMul(a, FPow(a, k - 1))

RECURSIVE FProd(_)
\* np.prod of a one-dimensional array.
FProd(s) == IF Len(s) = 0 THEN Num(1) ELSE FMul(Head(s), FProd(Tail(s)))

\* np.pi ** (n / 2)
PiPowHalf(n) ==
    IF n % 2 = 0 THEN FPow(Pi, n \div 2) ELSE FMul(FSqrt(Pi), FPow(Pi, n \div 2))

RECURSIVE GammaHalf(_)
\* scipy.special.gamma(k / 2) for an integer k >= 1:
\* gamma(1/2) = sqrt(pi), gamma(1) = 1, gamma(x + 1) = x gamma(x).
GammaHalf(k) ==
    IF k = 1 THEN FSqrt(Pi)
    ELSE IF k = 2 THEN Num(1)
    ELSE FMul(FDiv(Num(k - 2), Num(2)), GammaHalf(k - 2))

\* A value given in thousandths.
Milli(t) == Fin(RoundDiv(t * Scale, 1000))
\* The confidences that are explored.
ConfHalf == Fin(Scale \div 2)
ConfNinety == Fin((9 * Scale) \div 10)
\* scipy.stats.chi2.ppf(q, n), tabulated for n = 1..5 at the confidences that
\* are explored; the quantile is 0 at q = 0, inf at q = 1, nan outside [0, 1].
chi2_ppf(q, n) ==
    IF q = ConfHalf THEN Milli(<<455, 1386, 2366, 3357, 4351>>[n])
    ELSE IF q = ConfNinety THEN Milli(<<2706, 4605, 6251, 7779, 9236>>[n])
    ELSE IF q = Num(0) THEN Fin(0)
    ELSE IF q = Num(1) THEN PInf
    ELSE NaN

RECURSIVE RootSearch(_, _, _, _)
\* The largest r in lo..hi with (r / Scale) ** d <= a.
RootSearch(a, d, lo, hi) ==
    IF lo >= hi THEN lo
    ELSE LET mid == (lo + hi + 1) \div 2
         IN  IF FPow(Fin(mid), d).v <= a.v THEN RootSearch(a, d, mid, hi)
             ELSE RootSearch(a, d, lo, mid - 1)

\* a ** (1 / d) for a NumPy float a and an integer d >= 1: nan for a < 0.
FRoot(a, d) ==
    IF IsNaN(a) THEN NaN
    ELSE IF IsInf(a) THEN (IF a.v = 1 THEN PInf ELSE NaN)
    ELSE IF a.v < 0 THEN NaN
    ELSE Fin(RootSearch(a, d, 0, IF a.v > Scale THEN a.v ELSE Scale))

\* berbl.utils.space_vol(dim)
space_vol(dim) == Num(2 ^ dim)

\* berbl.utils.ellipsoid_vol(rs, n)
ellipsoid_vol(rs, n) == FMul(FDiv(PiPowHalf(n), GammaHalf(n + 2)), FProd(rs))

\* RadialMatch.covered_vol(cover_confidence), that is
\* _covered_vol(self.eigvals, cover_confidence)
covered_vol(eigvals, cover_confidence) ==
    LET n == Len(eigvals)
        rs == Vec([i \in 1..n |->
                      FSqrt(FMul(chi2_ppf(cover_confidence, n), eigvals[i]))])
    IN  ellipsoid_vol(rs, n)

(***************************************************************************)
(* Construction of a matching region.                                      *)
(***************************************************************************)
\* A check that lets an effective dimensionality of 1 pass.
check_input_dim_lax(D_X, has_bias) ==
    LET D_X_adj == D_X - (IF has_bias THEN 1 ELSE 0)
    IN  IF D_X_adj >= 1 THEN Return(D_X_adj) ELSE Raise("AssertionError")

\* _check_input_dim(D_X, has_bias); has_bias counts as 1 or 0.
check_input_dim(D_X, has_bias) ==
    LET D_X_adj == D_X - (IF has_bias THEN 1 ELSE 0)
    IN  IF D_X_adj > 1 THEN Return(D_X_adj) ELSE Raise("AssertionError")

\* RadialMatch.__init__(mean, eigvals, eigvecs, has_bias): the new object, or
\* the exception raised.
RadialMatch(mean, eigvals, eigvecs, has_bias) ==
    LET c == check_input_dim(Len(mean) + (IF has_bias THEN 1 ELSE 0), has_bias)
    IN  IF c.exc # "none" THEN c
        ELSE IF Len(mean) # Len(eigvals) THEN Raise("AssertionError")
        ELSE IF Len(mean) # Len(eigvecs) THEN Raise("AssertionError")
        ELSE Return([eigvals |-> eigvals, has_bias |-> has_bias, D_X_adj |-> c.val[1],
                     mean |-> mean, eigvecs |-> eigvecs])

\* sklearn.utils.check_random_state(seed): the generator that the draws are
\* taken from.  None stands for the global generator of numpy.random, an int
\* seeds a new generator, a RandomState instance is used as it is.
check_random_state(seed) ==
    IF seed = "None" THEN "np.random.mtrand._rand"
    ELSE IF seed = "int" THEN "RandomState(seed)"
    ELSE seed

\* random_state.uniform(low=low, high=high, size=n): u holds the n draws of
\* the unit interval [0, 1) behind it.
uniform(low, high, u) ==
    Vec([i \in 1..Len(u) |-> FAdd(low[i], FMul(FSub(high[i], low[i]), u[i]))])

\* The radius r of random_ball (lines 155-156) without the volume of the unit
\* ball: the root of coverage * V alone.
ball_radius_cube(coverage, V, D_X_adj) ==
    FRoot(FMul(coverage, V), D_X_adj)

\* The radius r of random_ball (lines 155-156): the ball of radius r in D_X_adj
\* dimensions has the volume coverage * V.
ball_radius(coverage, V, D_X_adj) ==
    FRoot(FDiv(FMul(FMul(coverage, V), GammaHalf(D_X_adj + 2)),
               PiPowHalf(D_X_adj)),
          D_X_adj)

\* berbl.utils.ball_vol(r, n)
ball_vol(r, n) == FMul(FDiv(PiPowHalf(n), GammaHalf(n + 2)), FPow(r, n))

\* RadialMatch.random_ball(D_X, has_bias, cover_confidence, coverage,
\* random_state); u and eigvecs are what random_state.uniform and
\* special_ortho_group.rvs draw.
random_ball(D_X, has_bias, cover_confidence, coverage, u, eigvecs) ==
    LET c == check_input_dim(D_X, has_bias)
    IN  IF c.exc # "none" THEN c
        ELSE
        LET D_X_adj == c.val[1]
            high == Vec([i \in 1..D_X_adj |-> Num(1)])
            low == Vec([i \in 1..D_X_adj |-> FSub(high[i], Num(2))])
            mean == uniform(low, high, u)
            V == space_vol(D_X_adj)
            r == ball_radius(coverage, V, D_X_adj)
            lambd == FDiv(FMul(r, r), chi2_ppf(cover_confidence, D_X_adj))
            eigvals == Vec([i \in 1..D_X_adj |-> lambd])
        IN  RadialMatch(mean, eigvals, eigvecs, has_bias)

(***************************************************************************)
(* Mutation of a matching region.                                          *)
(***************************************************************************)
\* np.cos and np.sin of an angle given in degrees, tabulated for the
\* multiples of 18 degrees between -90 and 90.
CosDeg(angle) ==
    LET a == (IF angle.v < 0 THEN -angle.v ELSE angle.v) \div Scale
    IN  Milli(<<1000, 951, 809, 588, 309, 0>>[(a \div 18) + 1])
SinDeg(angle) ==
    LET c == CosDeg(Fin(90 * Scale - (IF angle.v < 0 THEN -angle.v ELSE angle.v)))
    IN  IF angle.v < 0 THEN FNeg(c) ELSE c

\* np.outer(u, v)
Outer(u, v) == Mat([i \in 1..Len(u) |-> [j \in 1..Len(v) |-> FMul(u[i], v[j])]])
\* c * A for a scalar c.
ScalarMul(c, A) == Mat([i \in 1..Rows(A) |-> [j \in 1..Cols(A) |-> FMul(c, A[i][j])]])

\* The order np.argsort sorts keys by: ascending, nan last.
KeyLess(a, b) == IF IsNaN(a) THEN FALSE ELSE IF IsNaN(b) THEN TRUE ELSE FGt(b, a)
\* np.argsort(keys): entry k is the (0-based) index of the k-th smallest key,
\* equal keys in the order of their indices.
argsort(keys) ==
    Vec([k \in 1..Len(keys) |->
        (CHOOSE i \in 1..Len(keys) :
            Cardinality({j \in 1..Len(keys) :
                            \/ KeyLess(keys[j], keys[i])
                            \/ (~KeyLess(keys[i], keys[j]) /\ j < i)}) = k - 1) - 1])

\* _stretch(eigvals, vol, scale, cover_confidence, random_state).  The draws
\* of random_state: sign (1 or -1, from random() < 0.5), i0 (from
\* randint(0, n)) and, for normal(loc, scale), the standard normal deviates z
\* (entry i of the draw is loc[i] + z[i] * scale[i]).  normal raises
\* ValueError when an entry of scale is negative.
stretch(eigvals, vol, scale, cover_confidence, sign, i0, z) ==
    LET n == Len(eigvals)
        eigvals_ == Vec([i \in 1..n |->
                            IF i = i0 + 1 THEN Num(1)
                            ELSE FAdd(eigvals[i], FMul(z[i], FMul(eigvals[i], scale)))])
        root == FAdd(FProd([i \in 1..n |-> FSqrt(eigvals[i])]),
                     FDiv(FMul(FMul(Num(sign), vol), GammaHalf(n + 2)),
                          FMul(PiPowHalf(n),
                               FPow(FSqrt(chi2_ppf(cover_confidence, n)), n))))
        eigval_0 == FMul(FMul(root, root), FDiv(Num(1), FProd(eigvals_)))
    IN  IF \E i \in 1..n : FGt(Fin(0), FMul(eigvals[i], scale))
        THEN Raise("ValueError")
        ELSE Return(Vec([i \in 1..n |-> IF i = i0 + 1 THEN eigval_0 ELSE eigvals_[i]]))

\* A rotation whose matrix W is symmetric: np.outer(v1, v2) + np.outer(v2, v1).
rotate_symmetric(eigvecs, angle, i1, i2) ==
    LET D_X_adj == Len(eigvecs)
        v1 == eigvecs[i1 + 1]
        v2 == eigvecs[i2 + 1]
        V == MatAdd(Outer(v1, v1), Outer(v2, v2))
        W == MatAdd(Outer(v1, v2), Outer(v2, v1))
        R == MatAdd(MatAdd(Diag(Num(1), D_X_adj),
                           ScalarMul(FSub(CosDeg(angle), Num(1)), V)),
                    ScalarMul(SinDeg(angle), W))
    IN  MatMul(R, eigvecs)

\* _rotate(eigvecs, angle, i1, i2), angle in degrees.
rotate(eigvecs, angle, i1, i2) ==
    LET D_X_adj == Len(eigvecs)
        v1 == eigvecs[i1 + 1]
        v2 == eigvecs[i2 + 1]
        V == MatAdd(Outer(v1, v1), Outer(v2, v2))
        W == MatSub(Outer(v1, v2), Outer(v2, v1))
        R == MatAdd(MatAdd(Diag(Num(1), D_X_adj),
                           ScalarMul(FSub(CosDeg(angle), Num(1)), V)),
                    ScalarMul(SinDeg(angle), W))
    IN  MatMul(R, eigvecs)

\* mutate, line 367: the ranks that weight the choice of the rotation plane.
ranks(eigvals) ==
    LET order == argsort(Vec([i \in 1..Len(eigvals) |-> FNeg(eigvals[i])]))
    IN  Vec([k \in 1..Len(eigvals) |-> order[k] + 1])

\* mutate, line 371: weights = ranks / np.sum(ranks), the probabilities that
\* random_state.choice draws the axis indices 0..n-1 with.
weights(eigvals) ==
    LET r == ranks(eigvals)
        RECURSIVE Total(_)
        Total(k) == IF k = 0 THEN 0 ELSE r[k] + Total(k - 1)
    IN  Vec([k \in 1..Len(r) |-> FDiv(Num(r[k]), Num(Total(Len(r))))])

\* mutate, lines 371-376: random_state.choice(..., size=2, replace=False,
\* p=weights) can draw the pair (i1, i2): the indices differ and both have a
\* weight that is not zero.
CanChoose(eigvals, i1, i2) ==
    i1 # i2 /\ ranks(eigvals)[i1 + 1] # 0 /\ ranks(eigvals)[i2 + 1] # 0

\* A mutation that also moves the region to the origin.
mutate_recentre(match, cover_confidence, vol, pscale, d) ==
    LET s == stretch(match.eigvals, vol, pscale, cover_confidence, d.sign, d.i0, d.z)
    IN  IF s.exc # "none" THEN [exc |-> s.exc, obj |-> match]
        ELSE
        LET m1 == [match EXCEPT !.eigvals = s.val[1],
                                !.mean = Vec([i \in 1..Len(match.mean) |-> Num(0)])]
            angle == FMul(Num(d.asign), d.angle)
        IN  [exc |-> "none",
             obj |-> [m1 EXCEPT !.eigvecs = rotate(m1.eigvecs, angle, d.i1, d.i2)]]

\* mutate(match, random_state, cover_confidence, vol, pscale): the object
\* after the call and the exception raised, if any.  d holds the draws of
\* random_state: those of _stretch, the pair (i1, i2) drawn by choice, the
\* angle drawn by normal(18, 18) and its sign asign.
mutate(match, cover_confidence, vol, pscale, d) ==
    LET s == stretch(match.eigvals, vol, pscale, cover_confidence, d.sign, d.i0, d.z)
    IN  IF s.exc # "none" THEN [exc |-> s.exc, obj |-> match]
        ELSE
        LET m1 == [match EXCEPT !.eigvals = s.val[1]]
            angle == FMul(Num(d.asign), d.angle)
        IN  [exc |-> "none",
             obj |-> [m1 EXCEPT !.eigvecs = rotate(m1.eigvecs, angle, d.i1, d.i2)]]

(***************************************************************************)
(* The inputs of the region's operations.                                  *)
(***************************************************************************)
Zeros(n) == [i \in 1..n |-> Num(0)]
Identity(n) == Diag(Num(1), n)
\* Draws of the unit interval behind random_state.uniform(low, high, size=n).
UniformDraws(n) == {[i \in 1..n |-> Fin((3 * Scale) \div 4)]}
\* Draws of special_ortho_group.rvs(dim=n): the quarter turn of the first two
\* axes.
OrthoDraws(n) ==
    {[i \in 1..n |-> [j \in 1..n |->
        IF i = 1 /\ j = 2 THEN Num(-1)
        ELSE IF i = 2 /\ j = 1 THEN Num(1)
        ELSE IF i = j /\ i > 2 THEN Num(1)
        ELSE Num(0)]]}
\* Coverages in (0, 1) and confidences in (0, 1).
Coverages == {Fin(Scale \div 5)}
Confidences == {ConfHalf}
\* Arguments of an explicit construction: a mean of 1..MaxDX entries, and
\* eigenvalues and eigenvectors of the same size or of one entry more.
Eigvals(n) == [i \in 1..n |-> Fin(Scale \div 4)]
\* Volumes to add or remove (vol >= 0) and scales of the resampling (a
\* negative scale makes random_state.normal raise).
Vols == {Fin(Scale \div 10), Num(2)}
PScales == {Fin(-(Scale \div 10)), Fin(Scale \div 10), Num(1)}
\* Standard normal deviates behind the draws of random_state.normal.
ZDraws(n) == {[i \in 1..n |-> IF i <= k THEN Num(-2) ELSE Num(0)] : k \in {1, n}}
\* Draws of normal(loc=18, scale=18), in degrees.
AngleDraws == {Num(18)}
\* The draws of one mutate call on a region of dimensionality n.
MutateDraws(n) ==
    [sign : {1, -1}, i0 : 0..(n - 1), z : ZDraws(n),
     i1 : 0..(n - 1), i2 : 0..(n - 1), angle : AngleDraws, asign : {1, -1}]

(***************************************************************************)
(* The matching region as a state machine.                                 *)
(***************************************************************************)
\* No region has been constructed; the classifier is not under study.
InitRegion ==
    /\ region = <<>>
    /\ rret = NoCall
    /\ muts = 0
    /\ rng = "none"
    /\ heap = [arrays |-> <<>>, bound |-> <<>>, held |-> <<>>]
    /\ clf = <<>>
    /\ pc = "idle"
    /\ frame = <<>>
    /\ ret = NoCall
    /\ hist = <<>>

\* np.diag(v)
DiagOf(v) ==
    Mat([i \in 1..Len(v) |-> [j \in 1..Len(v) |-> IF i = j THEN v[i] ELSE Fin(0)]])

\* RadialMatch._covariance()
covariance(self) ==
    MatMul(MatMul(self.eigvecs, DiagOf(self.eigvals)), Transpose(self.eigvecs))

RECURSIVE Whiten(_, _)
\* What scipy's multivariate_normal needs of the symmetric matrix S and the
\* deviation x: the logarithm of det(S) and x^T S^-1 x, here by elimination of
\* one axis after the other. S must be positive definite: a negative pivot
\* is an eigenvalue below zero (ValueError, "must be positive semidefinite"),
\* a pivot of zero is a singular matrix (LinAlgError).
Whiten(S, x) ==
    IF Len(S) = 0 THEN Return([logdet |-> Fin(0), maha |-> Fin(0)])
    ELSE
    LET p == S[1][1]
        n == Len(S)
    IN  IF FGt(Num(0), p) THEN Raise("ValueError")
        ELSE IF p = Fin(0) THEN Raise("LinAlgError")
        ELSE
        LET S1 == Mat([i \in 1..(n - 1) |-> [j \in 1..(n - 1) |->
                    FSub(S[i + 1][j + 1], FDiv(FMul(S[i + 1][1], S[1][j + 1]), p))]])
            x1 == Vec([i \in 1..(n - 1) |->
                    FSub(x[i + 1], FDiv(FMul(S[i + 1][1], x[1]), p))])
            rest == Whiten(S1, x1)
        IN  IF rest.exc # "none" THEN rest
            ELSE Return([logdet |-> FAdd(FLog(p), rest.val[1].logdet),
                         maha |-> FAdd(FDiv(FMul(x[1], x[1]), p),
                                       rest.val[1].maha)])

\* a / 2
FHalf(a) == IF IsFin(a) THEN Fin(RoundDiv(a.v, 2)) ELSE a

\* The natural logarithm of the smallest positive normal float,
\* np.finfo(None).tiny = 2.2250738585072014e-308.
LnTiny == Milli(-708396)

\* Densities are kept by their natural logarithm, so that the whole range of
\* a float between tiny and 1 can be told apart.
\*
\* scipy.stats.multivariate_normal(mean=mean, cov=cov).pdf(X): the logarithm
\* of one density per row of X; the output is squeezed, so that for a single
\* row it is a scalar.
multivariate_normal_pdf(mean, cov, X) ==
    IF ~AllFinite(cov) THEN Raise("ValueError")
    ELSE
    LET d == Len(mean)
        w == [n \in 1..Len(X) |->
                 Whiten(cov, Vec([i \in 1..d |-> FSub(X[n][i], mean[i])]))]
        logpdf == Vec([n \in 1..Len(X) |->
                     FNeg(FHalf(FAdd(FMul(Num(d), Fin(Ln2Pi)),
                                     FAdd(w[n].val[1].logdet,
                                          w[n].val[1].maha))))])
    IN  IF \E n \in 1..Len(X) : w[n].exc # "none"
        THEN Raise(w[CHOOSE n \in 1..Len(X) : w[n].exc # "none"].exc)
        ELSE IF Len(X) = 1 THEN Return(logpdf[1])
        ELSE Return(logpdf)

\* np.clip(m, a_min=a_min, a_max=a_max); nan stays nan.
clip(m, a_min, a_max) ==
    Vec([n \in 1..Len(m) |->
            IF FGt(a_min, m[n]) THEN a_min
            ELSE IF FGt(m[n], a_max) THEN a_max
            ELSE m[n]])

\* RadialMatch._match_wo_bias(X); the result m[:, np.newaxis] has one row of
\* one entry per row of X.
match_wo_bias(self, X) ==
    LET Sigma == covariance(self)
        pdf == multivariate_normal_pdf(self.mean, Sigma, X)
    IN  IF pdf.exc # "none" THEN pdf
        ELSE
        LET m == IF Len(X) = 1 THEN <<pdf.val[1]>> ELSE pdf.val[1]
            clipped == clip(m, LnTiny, Fin(0))
        IN  Return(Mat([n \in 1..Len(clipped) |-> <<clipped[n]>>]))

\* X.T[1:].T
DropFirstColumn(X) ==
    Mat([n \in 1..Rows(X) |-> [j \in 1..(Cols(X) - 1) |-> X[n][j + 1]]])

\* RadialMatch.match(X)
match(self, X) ==
    IF self.has_bias THEN match_wo_bias(self, DropFirstColumn(X))
    ELSE match_wo_bias(self, X)

\* The arrays of a newly constructed region: __init__ binds the fields
\* eigvals and eigvecs to the very arrays it is given (lines 104-105), which
\* whoever passed them, or a shallow copy of the region, holds as well.
new_heap(eigvals, eigvecs) ==
    [arrays |-> <<eigvals, eigvecs>>,
     bound |-> [eigvals |-> 1, eigvecs |-> 2],
     held |-> [eigvals |-> 1, eigvecs |-> 2]]

\* A store into the array that the field is bound to: match.name[:] = value.
setattr_in_place(h, name, value) ==
    [h EXCEPT !.arrays[h.bound[name]] = value]

\* match.name = value, value being an array the callee has just created: the
\* field is bound to the new array, no array is written.
setattr(h, name, value) ==
    [h EXCEPT !.arrays = Append(@, value), !.bound[name] = Len(h.arrays) + 1]

\* The number of entries that random_ball draws for the mean.
DrawDim(D_X, has_bias) ==
    LET c == check_input_dim(D_X, has_bias)
    IN  IF c.exc = "none" THEN c.val[1] ELSE 0

\* RadialMatch.random_ball(D_X, has_bias, cover_confidence, coverage,
\* random_state), u and eigvecs being the draws of the generator.
RandomBall(D_X, has_bias, cover_confidence, coverage, random_state, u, eigvecs) ==
    /\ region = <<>>
    /\ \E r \in {random_ball(D_X, has_bias, cover_confidence, coverage, u, eigvecs)} :
           /\ region' = r.val
           /\ rret' = [exc |-> r.exc, val |-> <<>>, op |-> "random_ball",
                       arg |-> <<[cover_confidence |-> cover_confidence,
                                  D_X |-> D_X, has_bias |-> has_bias,
                                  coverage |-> coverage]>>]
           /\ rng' = IF check_input_dim(D_X, has_bias).exc = "none"
                     THEN check_random_state(random_state) ELSE rng
           /\ heap' = IF r.exc = "none"
                      THEN new_heap(r.val[1].eigvals, r.val[1].eigvecs) ELSE heap
    /\ UNCHANGED <<muts, clfVars>>

\* RadialMatch(mean, eigvals, eigvecs, has_bias)
Construct(mean, eigvals, eigvecs, has_bias) ==
    /\ region = <<>>
    /\ \E r \in {RadialMatch(mean, eigvals, eigvecs, has_bias)} :
           /\ region' = r.val
           /\ rret' = [exc |-> r.exc, val |-> <<>>, op |-> "RadialMatch",
                       arg |-> <<[eigvals |-> eigvals, has_bias |-> has_bias,
                                  mean |-> mean, eigvecs |-> eigvecs]>>]
           /\ heap' = IF r.exc = "none" THEN new_heap(eigvals, eigvecs) ELSE heap
    /\ UNCHANGED <<muts, rng, clfVars>>

\* mutate(match, random_state, cover_confidence, vol, pscale) on the region;
\* the fields eigvals and eigvecs are read back through the arrays they are
\* bound to after the call.
Mutate(cover_confidence, vol, pscale, random_state) ==
    /\ region # <<>>
    /\ (muts + 1) * Len(region[1].eigvals) <= MaxDraws
    /\ \E d \in MutateDraws(Len(region[1].eigvals)) :
       \E r \in {mutate(region[1], cover_confidence, vol, pscale, d)} :
       \E h \in {IF r.exc # "none" THEN heap
                 ELSE setattr(setattr(heap, "eigvals", r.obj.eigvals),
                              "eigvecs", r.obj.eigvecs)} :
         /\ r.exc = "none" => CanChoose(r.obj.eigvals, d.i1, d.i2)
         /\ region' = <<[r.obj EXCEPT !.eigvals = h.arrays[h.bound.eigvals],
                                      !.eigvecs = h.arrays[h.bound.eigvecs]]>>
         /\ heap' = h
         /\ rret' = [exc |-> r.exc, val |-> <<>>, op |-> "mutate",
                     arg |-> <<[eigvals |-> region[1].eigvals,
                                cover_confidence |-> cover_confidence,
                                vol |-> vol, sign |-> d.sign, pscale |-> pscale]>>]
    /\ muts' = muts + 1
    /\ rng' = check_random_state(random_state)
    /\ UNCHANGED clfVars

\* The generators that a caller can pass: None, an int seed, an instance of
\* RandomState.
RandomStates == {"None", "int", "RandomState"}

NextRegion ==
    \/ \E D_X \in 1..MaxDX, has_bias \in BOOLEAN,
          cover_confidence \in Confidences, coverage \in Coverages :
          \E u \in UniformDraws(DrawDim(D_X, has_bias)),
             eigvecs \in OrthoDraws(DrawDim(D_X, has_bias)) :
            RandomBall(D_X, has_bias, cover_confidence, coverage, "RandomState",
                       u, eigvecs)
    \/ \E n \in 1..MaxDX, k \in 0..1, has_bias \in BOOLEAN :
            Construct(Zeros(n), Eigvals(n + k), Identity(n + k), has_bias)
    \/ \E cover_confidence \in Confidences, vol \in Vols, pscale \in PScales :
            Mutate(cover_confidence, vol, pscale, "RandomState")

SpecRegion == InitRegion /\ [][NextRegion]_vars

\* Sampling and mutation with every kind of random source that a caller can
\* pass.
NextSource ==
    \/ \E has_bias \in BOOLEAN, random_state \in RandomStates,
          cover_confidence \in Confidences, coverage \in Coverages :
          \E u \in UniformDraws(DrawDim(MaxDX, has_bias)),
             eigvecs \in OrthoDraws(DrawDim(MaxDX, has_bias)) :
            RandomBall(MaxDX, has_bias, cover_confidence, coverage, random_state,
                       u, eigvecs)
    \/ \E random_state \in RandomStates, cover_confidence \in Confidences,
          vol \in Vols, pscale \in PScales :
            Mutate(cover_confidence, vol, pscale, random_state)

SpecSource == InitRegion /\ [][NextSource]_vars

\* RadialMatch.covered_vol(cover_confidence) on the region
CoveredVol(cover_confidence) ==
    /\ region # <<>>
    /\ rret' = [exc |-> "none",
                val |-> <<covered_vol(region[1].eigvals, cover_confidence)>>,
                op |-> "covered_vol",
                arg |-> <<[cover_confidence |-> cover_confidence]>>]
    /\ UNCHANGED <<region, muts, rng, heap, clfVars>>

\* Draws of random_state.uniform for the mean, as fractions of the interval:
\* its lower end, three quarters of it, and the largest fraction below 1.
UnitDraws(n) ==
    {[i \in 1..n |-> Fin(f)] : f \in {0, (3 * Scale) \div 4, Scale - 1}}

\* Coverages and confidences across (0, 1).
BallCoverages == {Fin(Scale \div 20), Fin(Scale \div 5), Fin(Scale \div 2),
                  Fin((4 * Scale) \div 5)}
BallConfidences == {ConfHalf, ConfNinety}

\* Sampling of regions of every supported size, and the volume they cover.
NextBall ==
    \/ \E D_X \in 1..(MaxDX + 1), has_bias \in BOOLEAN,
          cover_confidence \in BallConfidences, coverage \in BallCoverages :
          \E u \in UnitDraws(DrawDim(D_X, has_bias)),
             eigvecs \in OrthoDraws(DrawDim(D_X, has_bias)) :
            RandomBall(D_X, has_bias, cover_confidence, coverage, "RandomState",
                       u, eigvecs)
    \/ \E cover_confidence \in BallConfidences : CoveredVol(cover_confidence)

SpecBall == InitRegion /\ [][NextBall]_vars

\* RadialMatch.match(X) on the region
Match(X) ==
    /\ region # <<>>
    /\ \E r \in {match(region[1], X)} :
         rret' = [exc |-> r.exc, val |-> r.val, op |-> "match",
                  arg |-> <<[X |-> X]>>]
    /\ UNCHANGED <<region, muts, rng, heap, clfVars>>

\* An input with one row per entry of vals, the row of cols entries that are
\* all equal to that entry.
Points(vals, cols) ==
    Mat([n \in 1..Len(vals) |-> [j \in 1..cols |-> vals[n]]])

\* Inputs of one or two finite rows with as many columns as the region, if
\* there is one, expects: points at the origin, near it and far from it.
MatchInputs(r) ==
    IF r = <<>> THEN {}
    ELSE {Points(vals, r[1].D_X_adj + (IF r[1].has_bias THEN 1 ELSE 0)) :
            vals \in {<<Num(0)>>, <<Num(8)>>, <<Num(1), Num(8)>>}}

\* Eigenvalues of a narrow region.
NarrowEigvals(n) == [i \in 1..n |-> Fin(Scale \div 100)]

\* Regions of every origin, mutated or not, asked for their matching and
\* their covered volume.
NextQuery ==
    \/ \E D_X \in 2..MaxDX, has_bias \in BOOLEAN,
          cover_confidence \in Confidences, coverage \in Coverages :
          \E u \in UniformDraws(DrawDim(D_X, has_bias)),
             eigvecs \in OrthoDraws(DrawDim(D_X, has_bias)) :
            RandomBall(D_X, has_bias, cover_confidence, coverage, "RandomState",
                       u, eigvecs)
    \/ \E n \in 2..MaxDX, has_bias \in BOOLEAN :
          \E eigvals \in {Eigvals(n), NarrowEigvals(n)} :
            Construct(Zeros(n), eigvals, Identity(n), has_bias)
    \/ \E cover_confidence \in Confidences, pscale \in PScales :
            Mutate(cover_confidence, Fin(Scale \div 10), pscale, "RandomState")
    \/ \E X \in MatchInputs(region) : Match(X)
    \/ \E cover_confidence \in BallConfidences : CoveredVol(cover_confidence)

SpecQuery == InitRegion /\ [][NextQuery]_vars

(***************************************************************************)
(* Properties of the classifier.                                           *)
(***************************************************************************)
\* The last fit call returned normally and no call is running.
LastFitReturned == pc = "idle" /\ hist.outcome = "returned"
\* The classifier holds every fitted-state attribute.
FullyFitted == FittedNames \subseteq DOMAIN clf
\* The classifier as __init__ leaves it, with the hyperparameters of clf.
Fresh ==
    Classifier(clf.match, clf.A_ALPHA, clf.B_ALPHA, clf.A_TAU, clf.B_TAU,
               clf.DELTA_S_L_K_Q, clf.MAX_ITER)

\* C1: as long as no call of fit has completed (fit was never called, or every
\* call of it raised), predict and predict_var end with NotFittedError and
\* return no value.
C1_NotFittedBeforeFit ==
    (hist.completed = 0 /\ ret.op \in {"predict", "predict_var"})
        => (ret.exc = "NotFittedError" /\ ret.val = <<>>)

\* C2: when a call of fit on an already fitted classifier raises, every
\* fitted-state attribute has the value it had when the call was made.
C2_AbortedFitKeepsState ==
    (pc = "idle" /\ ret.op = "fit" /\ hist.outcome = "raised"
        /\ hist.entry[1].fitted)
        => FittedState(clf) = hist.entry[1].state

\* C3: the fitted state a returning fit(X, y) leaves depends only on X, y, the
\* membership vector and the hyperparameters: whatever calls of fit came
\* before, it is the state that one fit of a newly constructed classifier
\* with the same hyperparameters leaves.
C3_FitIgnoresEarlierFits ==
    LastFitReturned => FittedState(clf) = FittedState(fit(Fresh, hist.inp[1]).obj)

\* A fit has just returned on a classifier that an earlier, completed fit on
\* data of another shape had left fitted.
C3_Witness ==
    /\ LastFitReturned
    /\ ret.op = "fit"
    /\ Has(clf, "W_")
    /\ hist.entry[1].fitted
    /\ Has(hist.entry[1].state, "W_")
    /\ hist.entry[1].state.D_X_ # clf.D_X_

\* The improvement of the bound by the last iteration: the bound after it
\* minus the bound before it.
Improvement == FSub(clf.L_q_, frame[1].L_q_prev)
\* The next step of fit is another iteration of the loop (which may raise).
IterationStep ==
    \/ pc' = "while" /\ frame'[1].iter = frame[1].iter + 1
    \/ pc' = "idle" /\ ret'.exc # "none"
\* The next step of fit is its return.
ReturnStep == pc' = "idle" /\ ret'.exc = "none" /\ clf' = clf

\* C4: the loop of fit runs at most MAX_ITER iterations; after an iteration it
\* runs another one only if that iteration improved the bound by more than
\* DELTA_S_L_K_Q, and otherwise (the improvement is at most the threshold, or
\* the bound went down) fit returns.
C4_LoopBounded ==
    /\ [](pc = "while" => frame[1].iter <= clf.MAX_ITER)
    /\ [][(pc = "while" /\ frame[1].iter >= 1) =>
            IF FGt(Improvement, clf.DELTA_S_L_K_Q) /\ frame[1].iter < clf.MAX_ITER
            THEN IterationStep
            ELSE ReturnStep]_vars

\* After two or more iterations the improvement is at most the threshold, with
\* iterations to spare: the loop has run on an improvement above the threshold
\* and is stopped by one that is not.
C4_Witness ==
    /\ pc = "while"
    /\ frame[1].iter >= 2
    /\ frame[1].iter < clf.MAX_ITER
    /\ ~FGt(Improvement, clf.DELTA_S_L_K_Q)

\* C5: after fit has returned normally, whatever the hyperparameters
\* (MAX_ITER = 0 included), every posterior parameter is stored and a predict
\* on an input with the fitted number of columns returns a value.
C5_ReturnedFitIsFit ==
    LastFitReturned =>
        /\ FullyFitted
        /\ (ret.op = "predict" /\ Cols(ret.arg[1]) = clf.D_X_) => ret.exc = "none"

\* C6: predict_var on a fitted classifier whose noise-precision shape a_tau_
\* is at most 1 ends with UndefinedMoment and returns no value.  (Stated for a
\* classifier that holds every fitted attribute, with one output column and an
\* input of the fitted number of columns, where nothing else can fail.)
C6_UndefinedMoment ==
    (LastFitReturned /\ FullyFitted /\ ret.op = "predict_var"
        /\ clf.D_y_ = 1 /\ Cols(ret.arg[1]) = clf.D_X_
        /\ FLe(clf.a_tau_, Num(1)))
        => (ret.exc = "UndefinedMoment" /\ ret.val = <<>>)

\* The variance the documentation of predict_var describes: for row n of X,
\* in each of the D_y_ columns, 2 b_tau / (a_tau - 1) (1 + x_n Lambda^-1 x_n^T).
PredictiveVariance(obj, X) ==
    LET factor == FDiv(FMul(Num(2), obj.b_tau_), FSub(obj.a_tau_, Num(1)))
        quad == RowSums(Hadamard(X, MatMul(X, obj.Lambda_1_)))
    IN  [n \in 1..Rows(X) |->
            [j \in 1..obj.D_y_ |-> FMul(factor, FAdd(Num(1), quad[n]))]]

\* C7: on a fitted classifier with noise shape above 1, predict_var(X) returns
\* the N x D_y matrix of predictive variances, for every D_y >= 1.
C7_PredictVarValue ==
    (LastFitReturned /\ FullyFitted /\ ret.op = "predict_var"
        /\ Cols(ret.arg[1]) = clf.D_X_
        /\ FGt(clf.a_tau_, Num(1)))
        => (ret.exc = "none" /\ ret.val = <<PredictiveVariance(clf, ret.arg[1])>>)

\* C17: fit, predict and predict_var leave the hyperparameters and the
\* reference to the matching function as they are, and fit leaves the arrays
\* X and y it was given as they are; the shape parameters a_alpha_ and a_tau_
\* are A_ALPHA + D_X * D_y / 2 and A_TAU + sum(m) / 2 from the loop's first
\* test to the return of fit, through every iteration.
C17_HyperparametersFixed ==
    /\ [][\A h \in HyperNames \cup {"match"} : clf'[h] = clf[h]]_vars
    /\ [](pc = "while" =>
            /\ frame[1].X = hist.inp[1].X
            /\ frame[1].y = hist.inp[1].y)
    /\ []((pc = "while" \/ (LastFitReturned /\ ret.op = "fit")) =>
            /\ clf.a_alpha_ = FAdd(clf.A_ALPHA,
                                   FDiv(Num(clf.D_X_ * clf.D_y_), Num(2)))
            /\ clf.a_tau_ = FAdd(clf.A_TAU,
                                 FMul(FDiv(Num(1), Num(2)), FSum(hist.inp[1].m))))

\* The loop of fit has run two iterations and is at its test again.
C17_Witness ==
    /\ pc = "while"
    /\ frame[1].iter >= 2
    /\ Has(clf, "W_")

(***************************************************************************)
(* Properties of the matching region.                                      *)
(***************************************************************************)
\* The effective dimensionality that the latest construction asked for.
AskedDim ==
    IF rret.op = "random_ball"
    THEN rret.arg[1].D_X - (IF rret.arg[1].has_bias THEN 1 ELSE 0)
    ELSE Len(rret.arg[1].mean)
\* The latest explicit construction passed eigenvalues and eigenvectors of
\* the size of the mean, as a region has them.
WellShaped ==
    rret.op = "RadialMatch" =>
        /\ Len(rret.arg[1].eigvals) = Len(rret.arg[1].mean)
        /\ Len(rret.arg[1].eigvecs) = Len(rret.arg[1].mean)

\* C8: a construction with effective dimensionality d <= 1, by random_ball or
\* by RadialMatch(mean, eigvals, eigvecs, has_bias), fails at once with the
\* dimension error (the failed assertion of _check_input_dim) and makes no
\* region; with d > 1 it succeeds and the region stores the dimensionality d.
C8_InvalidDimension ==
    (rret.op \in {"random_ball", "RadialMatch"}) =>
        IF AskedDim <= 1
        THEN rret.exc = "AssertionError" /\ region = <<>>
        ELSE WellShaped =>
                /\ rret.exc = "none"
                /\ region # <<>>
                /\ region[1].D_X_adj = AskedDim
                /\ Len(region[1].eigvals) = AskedDim

\* random_ball was called for two input columns of which one is the bias
\* column, and failed.
C8_Witness ==
    /\ rret.op = "random_ball"
    /\ rret.arg[1].D_X = 2
    /\ rret.arg[1].has_bias
    /\ rret.exc = "AssertionError"
    /\ region = <<>>

\* C9: every eigenvalue of a region is strictly positive, after any sequence
\* of mutate calls on a region constructed with strictly positive eigenvalues.
C9_EigenvaluesPositive ==
    region # <<>> =>
        \A i \in 1..Len(region[1].eigvals) : FGt(region[1].eigvals[i], Num(0))

\* Two volumes agree up to the resolution that volumes are computed with.
VolTol == Fin(Scale \div 20)
Close(a, b) ==
    /\ IsFin(a) /\ IsFin(b)
    /\ ~FGt(FSub(a, b), VolTol)
    /\ ~FGt(FSub(b, a), VolTol)

\* C10: the stretch step of a mutate call changes the volume covered at the
\* call's confidence by sign * vol, sign being the sign the step drew.  (Stated
\* for calls on strictly positive eigenvalues that store strictly positive
\* eigenvalues.)
C10_StretchVolume ==
    (/\ region # <<>> /\ rret.op = "mutate" /\ rret.exc = "none"
     /\ \A i \in 1..Len(region[1].eigvals) :
            /\ FGt(rret.arg[1].eigvals[i], Num(0))
            /\ FGt(region[1].eigvals[i], Num(0)))
        => Close(FSub(covered_vol(region[1].eigvals, rret.arg[1].cover_confidence),
                      covered_vol(rret.arg[1].eigvals, rret.arg[1].cover_confidence)),
                 FMul(Num(rret.arg[1].sign), rret.arg[1].vol))

\* Two entries of a matrix product agree up to the resolution of the numbers.
OrthoTol == Fin(Scale \div 50)
\* eigvecs @ eigvecs.T is the identity.
Orthonormal(E) ==
    LET P == MatMul(E, Transpose(E))
    IN  \A i \in 1..Rows(E), j \in 1..Rows(E) :
            LET e == FSub(P[i][j], IF i = j THEN Num(1) ELSE Num(0))
            IN  IsFin(e) /\ ~FGt(e, OrthoTol) /\ ~FGt(FNeg(e), OrthoTol)
\* The angles, in degrees, whose cosine and sine are tabulated.
RotationAngles == {Num(18 * k) : k \in -5..5}

\* C11: the eigenvector matrix of a region is orthonormal after any sequence
\* of mutate calls on a region constructed with an orthonormal matrix, and
\* _rotate applied to it returns an orthonormal matrix for every angle and
\* every two distinct row indices.
C11_RotateKeepsOrthonormal ==
    region # <<>> =>
        /\ Orthonormal(region[1].eigvecs)
        /\ \A angle \in RotationAngles :
             \A i1 \in 0..(Len(region[1].eigvecs) - 1),
                i2 \in 0..(Len(region[1].eigvecs) - 1) :
                 i1 # i2 => Orthonormal(rotate(region[1].eigvecs, angle, i1, i2))

\* A mutate call has rotated the eigenvectors of the region by an angle that
\* is not a multiple of 90 degrees.
C11_Witness ==
    /\ region # <<>>
    /\ rret.op = "mutate"
    /\ rret.exc = "none"
    /\ muts >= 1
    /\ region[1].eigvecs # Identity(Len(region[1].eigvecs))
    /\ \E i \in 1..Len(region[1].eigvecs) :
            region[1].eigvecs[i][i].v \notin {0, Scale, -Scale}

\* C16: the weights that mutate draws the rotation plane with are a
\* probability distribution (all positive, summing to 1) that favours the
\* axes with the larger eigenvalues: of two axes, the one with the larger
\* eigenvalue has a weight that is not smaller.  (Stated for the strictly
\* positive eigenvalues that a mutate call has just stored.)
C16_RankWeights ==
    (/\ region # <<>> /\ rret.op = "mutate" /\ rret.exc = "none"
     /\ \A i \in 1..Len(region[1].eigvals) : FGt(region[1].eigvals[i], Num(0)))
        => LET e == region[1].eigvals
               w == weights(e)
           IN  /\ \A i \in 1..Len(e) : FGt(w[i], Num(0))
               /\ Close(FSum(w), Num(1))
               /\ \A i \in 1..Len(e), j \in 1..Len(e) :
                      FGt(e[i], e[j]) => ~FGt(w[j], w[i])

\* The eigenvalues and eigenvectors that a shallow copy of the region, taken
\* when the region was constructed, reads through its own fields.
CopyArrays(h) ==
    [eigvals |-> h.arrays[h.held.eigvals], eigvecs |-> h.arrays[h.held.eigvecs]]

\* C18: a mutate call writes into none of the arrays that existed before it,
\* the arrays that the region's fields were bound to included: it binds the
\* fields eigvals and eigvecs to arrays that are new. A shallow copy that
\* shares the arrays of the original region reads the same eigenvalues, the
\* same eigenvectors and the same covered volume after the call as before.
C18_MutateBindsNewArrays ==
    [][(region # <<>> /\ rret'.op = "mutate") =>
          /\ SubSeq(heap'.arrays, 1, Len(heap.arrays)) = heap.arrays
          /\ rret'.exc = "none" =>
                /\ heap'.bound.eigvals > Len(heap.arrays)
                /\ heap'.bound.eigvecs > Len(heap.arrays)
                /\ heap'.bound.eigvals # heap'.bound.eigvecs
          /\ CopyArrays(heap') = CopyArrays(heap)
          /\ \A cc \in {ConfHalf, ConfNinety} :
                covered_vol(CopyArrays(heap').eigvals, cc)
                    = covered_vol(CopyArrays(heap).eigvals, cc)]_vars

\* A mutate call has returned and the region reads eigenvalues and
\* eigenvectors that differ from the ones its shallow copy reads.
C18_Witness ==
    /\ region # <<>>
    /\ rret.op = "mutate"
    /\ rret.exc = "none"
    /\ region[1].eigvals # CopyArrays(heap).eigvals
    /\ region[1].eigvecs # CopyArrays(heap).eigvecs
    /\ region[1].eigvals = heap.arrays[heap.bound.eigvals]

\* C14: the result of random_ball and of mutate (its stretch step included)
\* is determined by the arguments and by the draws of the random source that
\* was passed, and no such operation draws from the ambient global generator
\* of numpy, whatever was passed as the random source.
C14_NoAmbientGenerator ==
    rret.op \in {"random_ball", "mutate"} => rng # "np.random.mtrand._rand"

\* The relative error that the fixed-point radius leaves in a volume.
BallTol(v) == FAdd(VolTol, FDiv(v, Num(50)))

\* C15: the region that random_ball returns for an effective dimensionality
\* d > 1, a confidence and a coverage in (0, 1) has d equal eigenvalues and a
\* mean inside [-1, 1]^d, and at that same confidence it covers the volume
\* coverage * space_vol(d), which is also the volume of the ball of the
\* radius r computed during the construction.
C15_BallCoversRequestedVolume ==
    /\ [](rret.op = "random_ball" /\ rret.exc = "none" =>
            LET a == rret.arg[1]
                ball == region[1]
                d == ball.D_X_adj
                want == FMul(a.coverage, space_vol(d))
                got == covered_vol(ball.eigvals, a.cover_confidence)
                r == ball_radius(a.coverage, space_vol(d), d)
            IN  /\ d > 1
                /\ d = a.D_X - (IF a.has_bias THEN 1 ELSE 0)
                /\ Len(ball.eigvals) = d
                /\ \A i \in 1..d : ball.eigvals[i] = ball.eigvals[1]
                /\ FGt(ball.eigvals[1], Num(0))
                /\ Len(ball.mean) = d
                /\ \A i \in 1..d : /\ FLe(Num(-1), ball.mean[i])
                                    /\ FLe(ball.mean[i], Num(1))
                /\ ~FGt(FSub(got, want), BallTol(want))
                /\ ~FGt(FSub(want, got), BallTol(want))
                /\ ~FGt(FSub(ball_vol(r, d), want), BallTol(want))
                /\ ~FGt(FSub(want, ball_vol(r, d)), BallTol(want)))
    /\ [][(/\ rret.op = "random_ball" /\ rret.exc = "none"
           /\ rret'.op = "covered_vol"
           /\ rret'.arg[1].cover_confidence = rret.arg[1].cover_confidence) =>
            LET want == FMul(rret.arg[1].coverage, space_vol(region[1].D_X_adj))
            IN  /\ ~FGt(FSub(rret'.val[1], want), BallTol(want))
                /\ ~FGt(FSub(want, rret'.val[1]), BallTol(want))]_vars

\* The volume covered by a region of four dimensions, sampled for a coverage
\* of 0.8 at the confidence 0.9, has been asked for at that confidence.
C15_Witness ==
    /\ region # <<>>
    /\ region[1].D_X_adj = MaxDX + 1
    /\ rret.op = "covered_vol"
    /\ rret.arg[1].cover_confidence = ConfNinety
    /\ FGt(rret.val[1], Num(12))
    /\ FGt(region[1].mean[1], Fin(Scale \div 2))

\* X with every entry of its first column replaced by c.
WithFirstColumn(X, c) ==
    Mat([n \in 1..Rows(X) |-> [j \in 1..Cols(X) |-> IF j = 1 THEN c ELSE X[n][j]]])

\* C12: for an input X of N >= 1 finite rows, match(X) returns a column of
\* exactly N rows of one entry (also for N = 1), every entry between the
\* smallest positive float and 1 (entries are kept by their logarithm: between
\* LnTiny and 0), and for a region with a bias column the result is the same
\* whatever the first column of X holds.
C12_MatchColumnInUnitRange ==
    rret.op = "match" =>
        LET X == rret.arg[1].X
        IN  /\ rret.exc = "none"
            /\ Len(rret.val[1]) = Rows(X)
            /\ \A n \in 1..Rows(X) :
                  /\ Len(rret.val[1][n]) = 1
                  /\ FLe(LnTiny, rret.val[1][n][1])
                  /\ FLe(rret.val[1][n][1], Fin(0))
            /\ region[1].has_bias =>
                  \A c \in {Num(0), Num(1)} :
                      match(region[1], WithFirstColumn(X, c)).val = rret.val

\* C13: mutate changes nothing of the region it is given but the eigenvalues
\* and the eigenvectors, and the region after the call is the object that it
\* returns: mean, has_bias and the stored dimensionality d are as before, the
\* eigenvalues are still d and the eigenvectors d x d; match and covered_vol
\* change no field of the region.
C13_MutateFrame ==
    [][region # <<>> =>
          /\ rret'.op = "mutate" =>
                /\ Len(region') = 1
                /\ DOMAIN region'[1] = DOMAIN region[1]
                /\ region'[1].mean = region[1].mean
                /\ region'[1].has_bias = region[1].has_bias
                /\ region'[1].D_X_adj = region[1].D_X_adj
                /\ Len(region'[1].eigvals) = region[1].D_X_adj
                /\ Len(region'[1].eigvecs) = region[1].D_X_adj
                /\ \A i \in 1..region[1].D_X_adj :
                      Len(region'[1].eigvecs[i]) = region[1].D_X_adj
          /\ rret'.op \in {"match", "covered_vol"} =>
                /\ region' = region
                /\ heap' = heap]_vars

\* A region with a mean away from the origin has been mutated, which changed
\* its eigenvalues and its eigenvectors, and then asked for its matching.
C13_Witness ==
    /\ region # <<>>
    /\ muts >= 1
    /\ rret.op = "match"
    /\ rret.exc = "none"
    /\ region[1].mean[1] # Num(0)
    /\ region[1].eigvals # CopyArrays(heap).eigvals
    /\ region[1].eigvecs # CopyArrays(heap).eigvecs

====
